---- MODULE Spec2Model ----
(***************************************************************************)
(* A model of dictionaryparser's flat parser                               *)
(* (src/dictionaryparser/parser/__init__.py): the string operations the    *)
(* line classifier Parser.next_line relies on, the classifier itself, and  *)
(* the scan Parser.parse, one action per branch of one loop iteration.     *)
(* Python strings are TLA+ strings; a character is a string of length 1.   *)
(***************************************************************************)
EXTENDS Integers, Sequences, FiniteSets, TLC

\* The number of lines an input text is made of, at most.
MaxLines == 3

\* The number of calls of parse() on one Parser instance, at most.
MaxCalls == 2

\* The number of tokens on the left-hand side of a generated entry line, at
\* most.
MaxTokens == 4

(***************************************************************************)
(* Python's str operations, computed as CPython computes them.             *)
(***************************************************************************)

\* s[i-1]: the character at the 1-based position i.
At(s, i) == SubSeq(s, i, i)

\* The characters str.strip() removes (those the inputs below can hold).
WHITESPACE == {" ", "\t", "\r", "\f"}

\* str.find, 1-based: the first position where sub occurs in s, 0 if none.
\* The empty string occurs at position 1 of every string.
find(s, sub) ==
    LET I == {i \in 1..(Len(s) - Len(sub) + 1) : SubSeq(s, i, i + Len(sub) - 1) = sub}
    IN IF I = {} THEN 0 ELSE CHOOSE i \in I : \A j \in I : i <= j

\* `sub in s` on strings: substring containment.
contains(s, sub) == find(s, sub) > 0

\* s.startswith(prefix)
startswith(s, prefix) == Len(prefix) <= Len(s) /\ SubSeq(s, 1, Len(prefix)) = prefix

RECURSIVE lstrip(_)
lstrip(s) ==
    IF Len(s) > 0 /\ At(s, 1) \in WHITESPACE THEN lstrip(SubSeq(s, 2, Len(s))) ELSE s

RECURSIVE rstrip(_)
rstrip(s) ==
    IF Len(s) > 0 /\ At(s, Len(s)) \in WHITESPACE THEN rstrip(SubSeq(s, 1, Len(s) - 1)) ELSE s

\* strip removing trailing whitespace only, as str.rstrip would.
strip_trailing(s) == rstrip(s)

\* str.strip(): leading and trailing whitespace removed.
strip(s) == rstrip(lstrip(s))

\* str.split(sep): every piece between occurrences of sep, empty pieces kept.
RECURSIVE split(_, _)
split(s, sep) ==
    LET i == find(s, sep)
    IN IF i = 0
       THEN <<s>>
       ELSE <<SubSeq(s, 1, i - 1)>> \o split(SubSeq(s, i + Len(sep), Len(s)), sep)

\* The last position where sub occurs in s, 0 if none (str.rfind).
rfind(s, sub) ==
    LET I == {i \in 1..(Len(s) - Len(sub) + 1) : SubSeq(s, i, i + Len(sub) - 1) = sub}
    IN IF I = {} THEN 0 ELSE CHOOSE i \in I : \A j \in I : i >= j

\* split1 cutting at the last occurrence of sep, as str.rsplit would.
split1_rsplit(s, sep) ==
    LET i == rfind(s, sep)
    IN IF i = 0
       THEN <<s>>
       ELSE <<SubSeq(s, 1, i - 1), SubSeq(s, i + Len(sep), Len(s))>>

\* str.split(sep, maxsplit=1): cut at the first occurrence of sep only.
split1(s, sep) ==
    LET i == find(s, sep)
    IN IF i = 0
       THEN <<s>>
       ELSE <<SubSeq(s, 1, i - 1), SubSeq(s, i + Len(sep), Len(s))>>

\* The letters the inputs can hold in two cases, position by position.
UPPERCASE == "ABCDEFGHIJKLMNOPQRSTUVWXYZÏÖÄÆ"
LOWERCASE == "abcdefghijklmnopqrstuvwxyzïöäæ"

\* str.lower() of a string of length at most 1.
lower(c) ==
    IF Len(c) = 1 /\ contains(UPPERCASE, c) THEN At(LOWERCASE, find(UPPERCASE, c)) ELSE c

\* sep.join(ls)
RECURSIVE join_with(_, _)
join_with(ls, sep) ==
    IF ls = <<>> THEN ""
    ELSE IF Len(ls) = 1 THEN ls[1]
    ELSE ls[1] \o sep \o join_with(Tail(ls), sep)

\* "\n".join(ls)
RECURSIVE join(_)
join(ls) ==
    IF ls = <<>> THEN ""
    ELSE IF Len(ls) = 1 THEN ls[1]
    ELSE ls[1] \o "\n" \o join(Tail(ls))

(***************************************************************************)
(* The data model.                                                         *)
(***************************************************************************)

\* POS_TABLE: abbreviation -> part-of-speech name, as the dict is written.
POS_TABLE ==
    ("n." :> "noun") @@ ("v." :> "verb") @@ ("aff." :> "affix")
    @@ ("irr.v." :> "irregular verb") @@ ("num." :> "number")
    @@ ("stv." :> "stative_verb") @@ ("adv." :> "adverb")
    @@ ("pron." :> "pronoun") @@ ("part." :> "particle")
    @@ ("conj." :> "conjunction") @@ ("hon." :> "honorific")
    @@ ("intj." :> "interjection") @@ ("inte." :> "interrogative")
    @@ ("prep." :> "preposition") @@ ("pos." :> "postposition")
    @@ ("phr." :> "phrase") @@ ("aux." :> "auxiliary")

\* PartOfSpeech: the values the Literal type of Definition.pos declares.
PartOfSpeech ==
    {"noun", "verb", "affix", "irregular_verb", "stative_verb", "adverb",
     "pronoun", "particle", "conjunction", "honorific", "interjection",
     "interrogative", "preposition", "postposition", "phrase", "auxiliary",
     "number"}

\* WordClass: the values the Literal type of Definition.word_class declares.
WordClass == {"i", "ii", "iii", "na"}

\* The dataclass Definition, fields in declaration order.
Definition(word, pos, word_class, definition, notes, is_derived_term, parent, irregular_inflections) ==
    [word |-> word, pos |-> pos, word_class |-> word_class,
     definition |-> definition, notes |-> notes,
     is_derived_term |-> is_derived_term, parent |-> parent,
     irregular_inflections |-> irregular_inflections]

\* A dict is the sequence of its <<key, value>> items in insertion order.
\* d[k]: the value of the item whose key is k.
getitem(d, k) == d[CHOOSE i \in 1..Len(d) : d[i][1] = k][2]

\* d.keys(), as a set.
keys(d) == {d[i][1] : i \in 1..Len(d)}

\* Definition.to_dict
to_dict(self) ==
    << <<"word", self.word>>,
       <<"pos", self.pos>>,
       <<"word_class", self.word_class>>,
       <<"definition", self.definition>>,
       <<"notes", self.notes>>,
       <<"is_derived_term", self.is_derived_term>>,
       <<"parent", self.parent>>,
       <<"irregular_inflections", self.irregular_inflections>> >>

\* from_dict handing notes and irregular_inflections over in each other's
\* position.
from_dict_swapped(d) ==
    Definition(getitem(d, "word"), getitem(d, "pos"), getitem(d, "word_class"),
               getitem(d, "definition"), getitem(d, "irregular_inflections"),
               getitem(d, "is_derived_term"), getitem(d, "parent"),
               getitem(d, "notes"))

\* Definition.from_dict: the values handed to the constructor by position.
from_dict(d) ==
    Definition(getitem(d, "word"), getitem(d, "pos"), getitem(d, "word_class"),
               getitem(d, "definition"), getitem(d, "notes"),
               getitem(d, "is_derived_term"), getitem(d, "parent"),
               getitem(d, "irregular_inflections"))

\* What next_line hands back: a Note (a str), a list of inflections, a
\* Definition, or no value at all when _die ends the process (SystemExit).
\* One record shape carries the four cases; kind says which field counts.
NoDefinition == Definition("", "", "", "", <<>>, FALSE, "", <<>>)
AsNote(text) == [kind |-> "Note", text |-> text, items |-> <<>>, def |-> NoDefinition]
AsList(items) == [kind |-> "list", text |-> "", items |-> items, def |-> NoDefinition]
AsDefinition(d) == [kind |-> "Definition", text |-> "", items |-> <<>>, def |-> d]
SystemExit == [kind |-> "SystemExit", text |-> "", items |-> <<>>, def |-> NoDefinition]
Unbound == [kind |-> "unbound", text |-> "", items |-> <<>>, def |-> NoDefinition]

(***************************************************************************)
(* Dictionary: the linear searches.                                        *)
(***************************************************************************)

\* No query was made yet.
NoSearch == [op |-> "none", term |-> "", result |-> <<>>]

\* search_word's predicate with the equality alone.
word_predicate_exact(search_term, word) == search_term = word

\* search_word's predicate: search_term in word or search_term == word
word_predicate(search_term, word) == contains(word, search_term) \/ search_term = word

\* search_definition's predicate: search_term in definition
definition_predicate(search_term, definition) == contains(definition, search_term)

\* The loop of search_word: the matches are appended in the order met.
RECURSIVE search_word(_, _)
search_word(definitions, search_term) ==
    IF definitions = <<>> THEN <<>>
    ELSE (IF word_predicate(search_term, Head(definitions).word)
          THEN <<Head(definitions)>> ELSE <<>>)
         \o search_word(Tail(definitions), search_term)

\* The loop of search_definition.
RECURSIVE search_definition(_, _)
search_definition(definitions, search_term) ==
    IF definitions = <<>> THEN <<>>
    ELSE (IF definition_predicate(search_term, Head(definitions).definition)
          THEN <<Head(definitions)>> ELSE <<>>)
         \o search_definition(Tail(definitions), search_term)

(***************************************************************************)
(* Parser.next_line: the line classifier.                                  *)
(***************************************************************************)

\* is_alt_form = line[0] in [" ", "\t"]
is_alt_form(l) == At(l, 1) \in {" ", "\t"}

\* scan_rem keeping the first key of POS_TABLE and the first class token.
RECURSIVE scan_rem_first(_, _, _)
scan_rem_first(rem, pos, wclass) ==
    IF rem = <<>> THEN <<pos, wclass>>
    ELSE LET elem == Head(rem)
         IN IF elem \in DOMAIN POS_TABLE
            THEN scan_rem_first(Tail(rem), IF pos = "" THEN elem ELSE pos, wclass)
            ELSE IF elem \in {"i.", "ii.", "iii."}
            THEN scan_rem_first(Tail(rem), pos, IF wclass = "" THEN elem ELSE wclass)
            ELSE scan_rem_first(Tail(rem), pos, wclass)

\* The loop over rem: the last key of POS_TABLE and the last class token
\* win. Returns <<pos, wclass>>.
RECURSIVE scan_rem(_, _, _)
scan_rem(rem, pos, wclass) ==
    IF rem = <<>> THEN <<pos, wclass>>
    ELSE LET elem == Head(rem)
         IN IF elem \in DOMAIN POS_TABLE THEN scan_rem(Tail(rem), elem, wclass)
            ELSE IF elem \in {"i.", "ii.", "iii."} THEN scan_rem(Tail(rem), pos, elem)
            ELSE scan_rem(Tail(rem), pos, wclass)

\* The test that sends a line without the delimiter to the inflection branch.
is_inflection_line(stripped) == contains(stripped, "inflections: ")

\* The branch of next_line taken when the line has no " // ".
classify_continuation(l) ==
    LET stripped == strip(l)
    IN IF is_inflection_line(stripped)
       THEN AsList(split(SubSeq(stripped, Len("inflections: ") + 1, Len(stripped)), ", "))
       ELSE AsNote(stripped)

\* classify_entry without the KeyError of line 155: an unknown abbreviation
\* is kept as an empty pos.
classify_entry_lenient(l, lhs, rhs) ==
    LET toks == split(strip(lhs), " ")
        found == scan_rem(Tail(toks), "", "")
        pos == IF found[1] \in DOMAIN POS_TABLE THEN POS_TABLE[found[1]] ELSE ""
    IN AsDefinition(Definition(Head(toks), pos, found[2], rhs, <<>>, is_alt_form(l), "", <<>>))

\* The branch of next_line taken when the line splits in lhs and rhs.
classify_entry(l, lhs, rhs) ==
    LET toks == split(strip(lhs), " ")
        term == Head(toks)
        rem == Tail(toks)
        found == scan_rem(rem, "", "")
    IN IF found[1] \notin DOMAIN POS_TABLE
       THEN SystemExit
       ELSE AsDefinition(Definition(term, POS_TABLE[found[1]], found[2],
                                    rhs, <<>>, is_alt_form(l), "", <<>>))

next_line(l) ==
    LET parts == split1(l, " // ")
    IN IF Len(parts) = 1
       THEN classify_continuation(l)
       ELSE classify_entry(l, parts[1], parts[2])

(***************************************************************************)
(* Parser.parse: the scan.                                                 *)
(***************************************************************************)

ALPHABET == "abcdefghijklmnopqrstuvwxyz'ïöäæ"

\* is_heading, as parse computes it for a non-empty line.
is_heading(l) ==
    contains(ALPHABET, lower(strip(At(l, 1)))) /\ Len(strip(l)) <= 4

(***************************************************************************)
(* The inputs: texts of at most MaxLines lines, each line one of Corpus.   *)
(***************************************************************************)

Corpus ==
    {"",                          \* an empty line
     "Aa",                        \* a section heading
     "awa n. // water",           \* a top-level entry
     "ki irr.v. ii. // to go",    \* an entry with a class token
     "awa x. // water",           \* an entry whose abbreviation is unknown
     "ta n. //  sun // day",      \* two delimiters, two spaces after the first
     "  awana n. i. // lake",     \* an indented (derived) entry
     "\tcf.",                     \* an indented line of trimmed length <= 4
     "  // x",                    \* indented, trimmed length 4, with the delimiter
     "plural only",               \* a note
     "  archaic form",            \* an indented note
     "see inflections: kia",      \* a note that mentions inflections
     "inflections: kia, kio"}     \* an inflection list

Texts == {join(ls) : ls \in UNION {[1..n -> Corpus] : n \in 0..MaxLines}}

\* Entry lines generated from tokens: every left-hand side of at most
\* MaxTokens tokens joined by single spaces (an empty token gives a leading,
\* a trailing or a repeated space), followed by the delimiter and a gloss.
Tokens == {"n.", "v.", "i.", "ii.", ""}
TokenLines ==
    {join_with(ts, " ") \o " // gloss" : ts \in UNION {[1..n -> Tokens] : n \in 0..MaxTokens}}

\* The texts of two Corpus lines.
PairTexts == {join(<<a, b>>) : a \in Corpus, b \in Corpus}

VARIABLES
    file,        \* the text the Parser was constructed from
    lines,       \* self.lines, the deque of lines still to scan
    res,         \* parse's local res
    line,        \* parse's local line: the line popped last
    classified,  \* parse's local next_line: what next_line returned last
    pc,          \* where the instance is: "idle" (constructed, or parse
                 \* returned), "loop" (inside parse), "SystemExit" (_die ended
                 \* the process), "IndexError" (parse raised)
    calls,       \* how many times parse() was called
    returned,    \* the list the last completed parse() returned
    method,      \* the method of Parser the running call entered by:
                 \* "parse" or "parse_to_dict"
    items,       \* d["items"] of the dict the last parse_to_dict() returned
    search       \* the last query on Dictionary(returned): its method, its
                 \* search_term and the list it returned

vars == <<file, lines, res, line, classified, pc, calls, returned, method, items, search>>

\* Parser.__init__
Init ==
    /\ file \in Texts
    /\ lines = split(file, "\n")
    /\ res = <<>>
    /\ line = ""
    /\ classified = Unbound
    /\ pc = "idle"
    /\ calls = 0
    /\ returned = <<>>
    /\ method = "parse"
    /\ items = <<>>
    /\ search = NoSearch

\* parse() is called: res = [], and the other locals are not bound yet.
Call ==
    /\ pc = "idle"
    /\ calls < MaxCalls
    /\ calls' = calls + 1
    /\ res' = <<>>
    /\ line' = ""
    /\ classified' = Unbound
    /\ pc' = "loop"
    /\ method' = "parse"
    /\ UNCHANGED <<file, lines, returned, items, search>>

\* while len(self.lines) != 0 fails: return res
Return ==
    /\ pc = "loop"
    /\ lines = <<>>
    /\ returned' = res
    /\ items' = IF method = "parse_to_dict" THEN [i \in 1..Len(res) |-> to_dict(res[i])] ELSE items
    /\ pc' = "idle"
    /\ UNCHANGED <<file, lines, res, line, classified, calls, method, search>>

\* A front read that leaves the queue as it is: line = self.lines[0]
Pop_peek ==
    /\ pc = "loop"
    /\ lines # <<>>
    /\ line' = Head(lines)
    /\ lines' = lines
    /\ UNCHANGED <<file, calls, returned, method, items, search>>

\* line = self.lines.popleft()
Pop ==
    /\ pc = "loop"
    /\ lines # <<>>
    /\ line' = Head(lines)
    /\ lines' = Tail(lines)
    /\ UNCHANGED <<file, calls, returned, method, items, search>>

\* if line == "": continue
SkipEmpty ==
    /\ Pop
    /\ line' = ""
    /\ UNCHANGED <<res, classified, pc>>

\* if is_heading: continue
SkipHeading ==
    /\ Pop
    /\ line' # ""
    /\ is_heading(line')
    /\ UNCHANGED <<res, classified, pc>>

\* The line reaches next_line.
Classify ==
    /\ Pop
    /\ line' # ""
    /\ ~is_heading(line')

\* next_line calls _die: exit(1)
Die ==
    /\ Classify
    /\ next_line(line') = SystemExit
    /\ pc' = "SystemExit"
    /\ UNCHANGED <<res, classified>>

\* res[len(res) - 1] with the replacement at(prev) of the last element; on an
\* empty list res[-1] raises IndexError.
with_last(r, prev) == [r EXCEPT ![Len(r)] = prev]

\* AttachNote replacing the notes of the last entry instead of appending.
AttachNote_overwrite ==
    /\ Classify
    /\ classified' = next_line(line')
    /\ classified'.kind = "Note"
    /\ IF res = <<>>
       THEN pc' = "IndexError" /\ UNCHANGED res
       ELSE /\ res' = with_last(res, [res[Len(res)] EXCEPT !.notes = <<classified'.text>>])
            /\ UNCHANGED pc

\* isinstance(next_line, Note)
AttachNote ==
    /\ Classify
    /\ classified' = next_line(line')
    /\ classified'.kind = "Note"
    /\ IF res = <<>>
       THEN pc' = "IndexError" /\ UNCHANGED res
       ELSE LET prev == res[Len(res)]
            IN /\ res' = with_last(res, [prev EXCEPT !.notes = Append(@, classified'.text)])
               /\ UNCHANGED pc

\* AttachDerived without line 191: the parent is never set.
AttachDerived_no_parent ==
    /\ Classify
    /\ classified' = next_line(line')
    /\ classified'.kind = "Definition"
    /\ classified'.def.is_derived_term = TRUE
    /\ IF res = <<>>
       THEN pc' = "IndexError" /\ UNCHANGED res
       ELSE res' = Append(res, classified'.def) /\ UNCHANGED pc

\* isinstance(next_line, Definition) and next_line.is_derived_term == True
AttachDerived ==
    /\ Classify
    /\ classified' = next_line(line')
    /\ classified'.kind = "Definition"
    /\ classified'.def.is_derived_term = TRUE
    /\ IF res = <<>>
       THEN pc' = "IndexError" /\ UNCHANGED res
       ELSE LET prev == res[Len(res)]
            IN /\ res' = Append(res, [classified'.def EXCEPT !.parent = prev.word])
               /\ UNCHANGED pc

\* isinstance(next_line, list)
AttachInflections ==
    /\ Classify
    /\ classified' = next_line(line')
    /\ classified'.kind = "list"
    /\ IF res = <<>>
       THEN pc' = "IndexError" /\ UNCHANGED res
       ELSE LET prev == res[Len(res)]
            IN /\ res' = with_last(res, [prev EXCEPT !.irregular_inflections = classified'.items])
               /\ UNCHANGED pc

\* AppendEntry inserting at the front of res instead of appending.
AppendEntry_prepend ==
    /\ Classify
    /\ classified' = next_line(line')
    /\ classified'.kind = "Definition"
    /\ classified'.def.is_derived_term = FALSE
    /\ res' = <<classified'.def>> \o res
    /\ UNCHANGED pc

\* else: res.append(next_line)
AppendEntry ==
    /\ Classify
    /\ classified' = next_line(line')
    /\ classified'.kind = "Definition"
    /\ classified'.def.is_derived_term = FALSE
    /\ res' = Append(res, classified'.def)
    /\ UNCHANGED pc

Next ==
    \/ Call
    \/ Return
    \/ SkipEmpty
    \/ SkipHeading
    \/ Die
    \/ AttachNote
    \/ AttachDerived
    \/ AttachInflections
    \/ AppendEntry

Spec == Init /\ [][Next]_vars

(***************************************************************************)
(* The public methods around parse, on generated entry lines and on texts  *)
(* of two lines.                                                           *)
(***************************************************************************)

\* Parser.__init__ on these texts.
InitApi ==
    /\ file \in TokenLines \cup PairTexts
    /\ lines = split(file, "\n")
    /\ res = <<>>
    /\ line = ""
    /\ classified = Unbound
    /\ pc = "idle"
    /\ calls = 0
    /\ returned = <<>>
    /\ method = "parse"
    /\ items = <<>>
    /\ search = NoSearch

\* parse_to_dict() is called: it calls parse().
CallToDict ==
    /\ pc = "idle"
    /\ calls < MaxCalls
    /\ calls' = calls + 1
    /\ res' = <<>>
    /\ line' = ""
    /\ classified' = Unbound
    /\ pc' = "loop"
    /\ method' = "parse_to_dict"
    /\ UNCHANGED <<file, lines, returned, items, search>>

\* The search terms of the queries.
SearchTerms == {"awa", "ke", ""}

\* Dictionary(returned).search_word(term), on the list a parse returned.
SearchWord ==
    /\ pc = "idle"
    /\ calls >= 1
    /\ \E term \in SearchTerms :
          search' = [op |-> "search_word", term |-> term,
                     result |-> search_word(returned, term)]
    /\ UNCHANGED <<file, lines, res, line, classified, pc, calls, returned, method, items>>

\* Dictionary(returned).search_definition(term)
SearchDefinition ==
    /\ pc = "idle"
    /\ calls >= 1
    /\ \E term \in SearchTerms :
          search' = [op |-> "search_definition", term |-> term,
                     result |-> search_definition(returned, term)]
    /\ UNCHANGED <<file, lines, res, line, classified, pc, calls, returned, method, items>>

NextApi ==
    \/ Next
    \/ CallToDict
    \/ SearchWord
    \/ SearchDefinition

SpecApi == InitApi /\ [][NextApi]_vars

(***************************************************************************)
(* The nested variant, dictionaryparser.Parser (and __main__.Lexer, whose  *)
(* tokenize is the same code): alternate forms are kept in a list of the   *)
(* entry they follow.  POS_TABLE, __init__, the loop over rem and the      *)
(* first lines of the scan are those of the flat variant.                  *)
(***************************************************************************)

\* The dataclass Definition of the nested variant, fields in declaration order.
NestedDefinition(is_alternate_form, word, pos, word_class, definition, notes, alternate_forms) ==
    [is_alternate_form |-> is_alternate_form, word |-> word, pos |-> pos,
     word_class |-> word_class, definition |-> definition, notes |-> notes,
     alternate_forms |-> alternate_forms]

\* next_line of the nested variant: a line without " // " is a Note.
nested_next_line(l) ==
    LET parts == split1(l, " // ")
    IN IF Len(parts) = 1
       THEN AsNote(strip(l))
       ELSE LET toks == split(strip(parts[1]), " ")
                term == Head(toks)
                rem == Tail(toks)
                found == scan_rem(rem, "", "")
            IN IF found[1] \notin DOMAIN POS_TABLE
               THEN SystemExit
               ELSE AsDefinition(NestedDefinition(is_alt_form(l), term, POS_TABLE[found[1]],
                                                  found[2], parts[2], <<>>, <<>>))

NESTED_ALPHABET == "abcdefghijklmnopqrstuvwxyz'ïö"

\* The heading test of the nested variant, for a non-empty line.
nested_is_heading(l) ==
    contains(NESTED_ALPHABET, lower(strip(At(l, 1)))) /\ Len(strip(l)) < 4

\* if <heading test>: continue
NestedSkipHeading ==
    /\ Pop
    /\ line' # ""
    /\ nested_is_heading(line')
    /\ UNCHANGED <<res, classified, pc>>

\* The line reaches next_line.
NestedClassify ==
    /\ Pop
    /\ line' # ""
    /\ ~nested_is_heading(line')

\* next_line calls die: exit(1)
NestedDie ==
    /\ NestedClassify
    /\ nested_next_line(line') = SystemExit
    /\ pc' = "SystemExit"
    /\ UNCHANGED <<res, classified>>

\* isinstance(next_line, Note)
NestedAttachNote ==
    /\ NestedClassify
    /\ classified' = nested_next_line(line')
    /\ classified'.kind = "Note"
    /\ IF res = <<>>
       THEN pc' = "IndexError" /\ UNCHANGED res
       ELSE LET prev == res[Len(res)]
            IN /\ res' = with_last(res, [prev EXCEPT !.notes = Append(@, classified'.text)])
               /\ UNCHANGED pc

\* The alternate form appended to the result list itself, as the flat
\* variant does with a derived term.
NestedAttachAlternate_flat ==
    /\ NestedClassify
    /\ classified' = nested_next_line(line')
    /\ classified'.kind = "Definition"
    /\ classified'.def.is_alternate_form = TRUE
    /\ IF res = <<>>
       THEN pc' = "IndexError" /\ UNCHANGED res
       ELSE /\ res' = Append(res, classified'.def)
            /\ UNCHANGED pc

\* isinstance(next_line, Definition) and next_line.is_alternate_form == True
NestedAttachAlternate ==
    /\ NestedClassify
    /\ classified' = nested_next_line(line')
    /\ classified'.kind = "Definition"
    /\ classified'.def.is_alternate_form = TRUE
    /\ IF res = <<>>
       THEN pc' = "IndexError" /\ UNCHANGED res
       ELSE LET prev == res[Len(res)]
            IN /\ res' = with_last(res, [prev EXCEPT !.alternate_forms = Append(@, classified'.def)])
               /\ UNCHANGED pc

\* else: res.append(next_line)
NestedAppendEntry ==
    /\ NestedClassify
    /\ classified' = nested_next_line(line')
    /\ classified'.kind = "Definition"
    /\ classified'.def.is_alternate_form = FALSE
    /\ res' = Append(res, classified'.def)
    /\ UNCHANGED pc

NextNested ==
    \/ Call
    \/ Return
    \/ SkipEmpty
    \/ NestedSkipHeading
    \/ NestedDie
    \/ NestedAttachNote
    \/ NestedAttachAlternate
    \/ NestedAppendEntry

SpecNested == Init /\ [][NextNested]_vars

(***************************************************************************)
(* Vocabulary of the properties below.                                     *)
(***************************************************************************)

\* This step of the scan pops a line (which is line in the next state).
Popped == pc = "loop" /\ lines # <<>> /\ lines' = Tail(lines) /\ line' = Head(lines)

\* The line is handed to next_line: it is neither empty nor discarded.
Reached(l) == l # "" /\ ~is_heading(l)

\* This step pops a line, classifies it and goes on scanning.
Processed == Popped /\ Reached(line') /\ pc' = "loop"

\* A section heading as the specification describes it: the first
\* character, case-folded, is a letter of the extended alphabet, and the
\* trimmed line has at most 4 characters.
IsLetter(c) == Len(c) = 1 /\ contains(ALPHABET, lower(c))
SpecHeading(l) == l # "" /\ IsLetter(At(l, 1)) /\ Len(strip(l)) <= 4

HasDelimiter(l) == contains(l, " // ")

\* The modifier tokens of an entry line: the tokens of its trimmed
\* left-hand side but the first.
Modifiers(l) == Tail(split(strip(split1(l, " // ")[1]), " "))
\* The headword of an entry line: the first token of its trimmed left side.
HeadWord(l) == Head(split(strip(split1(l, " // ")[1]), " "))

HasPosToken(l) == \E i \in 1..Len(Modifiers(l)) : Modifiers(l)[i] \in DOMAIN POS_TABLE

\* The parse has failed: _die ended the process, or IndexError was raised.
Failed == pc \in {"SystemExit", "IndexError"}

(***************************************************************************)
(* C1. Whenever an indented entry line is processed, the new Definition    *)
(* has is_derived_term = TRUE and parent = the word of the entry that was  *)
(* last in res, and it is appended as a new last element, the elements     *)
(* before it unchanged. Hence in every state of the scan every element of  *)
(* res with is_derived_term = TRUE sits at an index i > 1 (1-based) with   *)
(* parent = res[i-1].word, and every other element has parent = "".        *)
(***************************************************************************)
C1_Step ==
    (Processed /\ is_alt_form(line') /\ HasDelimiter(line'))
        => /\ res # <<>>
           /\ Len(res') = Len(res) + 1
           /\ SubSeq(res', 1, Len(res)) = res
           /\ res'[Len(res')].is_derived_term = TRUE
           /\ res'[Len(res')].parent = res[Len(res)].word

C1_State ==
    \A i \in 1..Len(res) :
        IF res[i].is_derived_term
        THEN i > 1 /\ res[i].parent = res[i - 1].word
        ELSE res[i].parent = ""

C1_DerivedParent == [][C1_Step]_vars /\ []C1_State

\* A derived entry has been appended after "awa" and carries its word.
C1_Witness ==
    /\ line = "  awana n. i. // lake"
    /\ Len(res) = 2
    /\ res[1].word = "awa"
    /\ res[2].is_derived_term
    /\ res[2].parent = "awa"

(***************************************************************************)
(* C2. For every input in which a continuation line (a note line, an       *)
(* inflection-list line, or an indented derived-entry line) occurs while   *)
(* res is still empty, the parse ends in an error state and returns no     *)
(* result: when the scan pops such a line with res empty, it fails at that *)
(* line; the line is never dropped with the scan going on.                 *)
(***************************************************************************)
\* A continuation line as the specification describes it: a line that
\* starts with a space or a tab, or a line without the delimiter that is
\* not a section heading.
IsContinuationLine(l) ==
    /\ l # ""
    /\ \/ is_alt_form(l)
       \/ ~HasDelimiter(l) /\ ~SpecHeading(l)

C2_Step == (Popped /\ res = <<>> /\ IsContinuationLine(line')) => Failed'

C2_ContinuationUnderflowFails == [][C2_Step]_vars

(***************************************************************************)
(* C3. If an entry line (a line with the " // " delimiter that the scan    *)
(* does not discard as empty or as a heading) has no modifier token that   *)
(* is a key of POS_TABLE, the parse aborts at that line with SystemExit:   *)
(* res is left as it was and nothing is returned, however many entries     *)
(* were accumulated, and no step follows, so the lines after it are never  *)
(* processed.                                                              *)
(***************************************************************************)
C3_Step ==
    (Popped /\ Reached(line') /\ HasDelimiter(line') /\ ~HasPosToken(line'))
        => /\ pc' = "SystemExit"
           /\ res' = res
           /\ returned' = returned

C3_Final == pc = "SystemExit" => (lines' = lines /\ res' = res /\ returned' = returned /\ pc' = pc)

C3_UnknownPosAborts == [][C3_Step /\ C3_Final]_vars

\* The parse died on an entry line with entries accumulated before it,
\* lines left after it and nothing returned.
C3_Witness ==
    /\ pc = "SystemExit"
    /\ line = "awa x. // water"
    /\ Len(res) >= 1
    /\ lines # <<>>
    /\ returned = <<>>

(***************************************************************************)
(* C4. parse discards a line as a section heading only when the line is    *)
(* not a continuation line: its first character, case-folded, is a letter  *)
(* of the extended alphabet and its trimmed length is <= 4. A line whose   *)
(* first character is a space or a tab is never discarded as a heading.    *)
(***************************************************************************)
\* This step pops a non-empty line and drops it: nothing is attached, and
\* the scan goes on.
Discarded == Popped /\ line' # "" /\ res' = res /\ pc' = pc

C4_Step == Discarded => (~is_alt_form(line') /\ SpecHeading(line'))

C4_HeadingNeverIndented == [][C4_Step]_vars

(***************************************************************************)
(* C5. For every line handed to next_line that has no " // " delimiter and *)
(* whose trimmed text does not begin with "inflections: ", the             *)
(* classification is a Note equal to the trimmed line.                     *)
(***************************************************************************)
C5_Step ==
    (Processed /\ ~HasDelimiter(line') /\ ~startswith(strip(line'), "inflections: "))
        => classified' = AsNote(strip(line'))

C5_NoteUnlessInflectionPrefix == [][C5_Step]_vars

(***************************************************************************)
(* C6. Processing a Note or an InflectionList changes only the last entry  *)
(* of res: a Note is appended at the end of that entry's notes, an         *)
(* InflectionList replaces that entry's irregular_inflections. The length  *)
(* of res, every other entry and every other field of the last entry are   *)
(* unchanged; the last entry may itself be a derived entry.                *)
(***************************************************************************)
\* The fields of a Definition but notes and irregular_inflections.
SameHead(d, e) ==
    /\ d.word = e.word
    /\ d.pos = e.pos
    /\ d.word_class = e.word_class
    /\ d.definition = e.definition
    /\ d.is_derived_term = e.is_derived_term
    /\ d.parent = e.parent

C6_Step ==
    (Processed /\ classified' = next_line(line') /\ classified'.kind \in {"Note", "list"})
        => /\ res # <<>>
           /\ Len(res') = Len(res)
           /\ \A i \in 1..(Len(res) - 1) : res'[i] = res[i]
           /\ SameHead(res'[Len(res)], res[Len(res)])
           /\ IF classified'.kind = "Note"
              THEN /\ res'[Len(res)].notes = res[Len(res)].notes \o <<strip(line')>>
                   /\ res'[Len(res)].irregular_inflections = res[Len(res)].irregular_inflections
              ELSE /\ res'[Len(res)].notes = res[Len(res)].notes
                   /\ res'[Len(res)].irregular_inflections = classified'.items

C6_ContinuationFrame == [][C6_Step]_vars

\* A note has just been attached to a derived entry, the last of two; the
\* entry before it has none.
C6_Witness ==
    /\ line = "plural only"
    /\ Len(res) = 2
    /\ res[2].is_derived_term
    /\ res[2].notes = <<"plural only">>
    /\ res[1].notes = <<>>

(***************************************************************************)
(* C7. Every entry in the result of a successful parse has word_class      *)
(* equal to one of "i", "ii", "iii" or the empty string.                   *)
(***************************************************************************)
C7_WordClassValues ==
    \A i \in 1..Len(returned) : returned[i].word_class \in {"i", "ii", "iii", ""}

(***************************************************************************)
(* C8. Every entry in the result of a successful parse has pos equal to    *)
(* one of the values of PartOfSpeech, for every abbreviation of POS_TABLE. *)
(***************************************************************************)
C8_PosValues ==
    \A i \in 1..Len(returned) : returned[i].pos \in PartOfSpeech

(***************************************************************************)
(* C9. next_line stores the right-hand side of the first " // " split      *)
(* verbatim as the definition. As first stated, the entry of the line      *)
(* `awa n. // water` has the definition " water", with a leading space.    *)
(***************************************************************************)
C9_LeadingSpaceKept ==
    (line = "awa n. // water" /\ pc = "loop")
        => /\ res # <<>>
           /\ res[Len(res)] = Definition("awa", "noun", "", " water", <<>>, FALSE, "", <<>>)

(***************************************************************************)
(* C9, amended. The definition of an entry is the text of its line after   *)
(* the first " // ", character for character: the delimiter takes the      *)
(* space that follows the slashes, so the entry of `awa n. // water` has   *)
(* word "awa", pos "noun", word_class "", is_derived_term FALSE and the    *)
(* definition "water", and only whitespace beyond the delimiter is kept.   *)
(***************************************************************************)
\* k is where the first " // " of l starts.
FirstDelimiterAt(l, k) ==
    /\ k + 3 <= Len(l)
    /\ SubSeq(l, k, k + 3) = " // "
    /\ \A j \in 1..(k - 1) : SubSeq(l, j, j + 3) # " // "

C9_Step ==
    (Processed /\ HasDelimiter(line'))
        => /\ res' # <<>>
           /\ \E k \in 1..Len(line') :
                 /\ FirstDelimiterAt(line', k)
                 /\ res'[Len(res')].definition = SubSeq(line', k + 4, Len(line'))

C9_Example ==
    (line = "awa n. // water" /\ pc = "loop")
        => /\ res # <<>>
           /\ res[Len(res)] = Definition("awa", "noun", "", "water", <<>>, FALSE, "", <<>>)

C9_DefinitionVerbatim == [][C9_Step]_vars /\ []C9_Example

\* The entry of a line with two delimiters, and two spaces after the first.
C9_Witness ==
    /\ line = "ta n. //  sun // day"
    /\ Len(res) = 2
    /\ res[1].definition = "water"
    /\ res[2].definition = " sun // day"

(***************************************************************************)
(* C10. parse preserves source order: on success the result holds exactly  *)
(* one entry per entry line (a line with " // " that the scan does not     *)
(* discard as empty or as a heading), in the order of those lines in the   *)
(* text; note and inflection-list lines add, remove and reorder nothing.   *)
(***************************************************************************)
IsEntryLine(l) == Reached(l) /\ HasDelimiter(l)

LastIn(seq, S) ==
    LET I == {i \in 1..Len(seq) : seq[i] \in S}
    IN IF I = {} THEN "" ELSE seq[CHOOSE i \in I : \A j \in I : j <= i]

C11_Step ==
    (Popped /\ Reached(line') /\ HasDelimiter(line') /\ HasPosToken(line'))
        => /\ classified'.kind = "Definition"
           /\ classified'.def.word = HeadWord(line')
           /\ classified'.def.pos = POS_TABLE[LastIn(Modifiers(line'), DOMAIN POS_TABLE)]
           /\ classified'.def.word_class = LastIn(Modifiers(line'), {"i.", "ii.", "iii."})

C11_LastTokenWins == [][C11_Step]_vars

\* A line whose headword is itself a key of POS_TABLE, with one
\* abbreviation and two class tokens after it.
C11_Witness ==
    /\ line = "n. v. ii. i. // gloss"
    /\ classified.kind = "Definition"
    /\ classified.def.word = "n."
    /\ classified.def.pos = "verb"
    /\ classified.def.word_class = "i."

(***************************************************************************)
(* C12. Every entry next_line returns, every entry of res and every entry  *)
(* of the result of a successful parse has a non-empty word, also for      *)
(* entry lines whose left-hand side is empty or whitespace only and for    *)
(* lines with repeated spaces between tokens.                              *)
(***************************************************************************)
C12_WordNonEmpty ==
    /\ classified.kind = "Definition" => classified.def.word # ""
    /\ \A i \in 1..Len(res) : res[i].word # ""
    /\ \A i \in 1..Len(returned) : returned[i].word # ""

\* An entry returned for a line with two spaces between its tokens.
C12_Witness ==
    /\ pc = "idle"
    /\ file = "v.  n. // gloss"
    /\ Len(returned) = 1
    /\ returned[1].word = "v."
    /\ returned[1].pos = "noun"

(***************************************************************************)
(* C13. The serializer round trip is lossless: from_dict(to_dict(e)) = e   *)
(* for every entry e the parse produces, mapping from_dict over the items  *)
(* of parse_to_dict's output gives the parsed entry sequence, and the keys *)
(* of each record are exactly word, pos, word_class, definition, notes,    *)
(* is_derived_term, parent, irregular_inflections.                         *)
(***************************************************************************)
RecordKeys ==
    {"word", "pos", "word_class", "definition", "notes", "is_derived_term",
     "parent", "irregular_inflections"}

C13_RoundTrip ==
    /\ \A i \in 1..Len(res) :
          /\ from_dict(to_dict(res[i])) = res[i]
          /\ keys(to_dict(res[i])) = RecordKeys
          /\ Len(to_dict(res[i])) = Cardinality(RecordKeys)
    /\ (pc = "idle" /\ calls >= 1 /\ method = "parse_to_dict")
          => /\ Len(items) = Len(returned)
             /\ \A i \in 1..Len(items) :
                   /\ from_dict(items[i]) = returned[i]
                   /\ keys(items[i]) = RecordKeys

\* parse_to_dict returned the record of an entry with inflections and no
\* notes.
C13_Witness ==
    /\ pc = "idle"
    /\ method = "parse_to_dict"
    /\ file = "awa n. // water\ninflections: kia, kio"
    /\ Len(items) = 1
    /\ getitem(items[1], "word") = "awa"
    /\ getitem(items[1], "irregular_inflections") = <<"kia", "kio">>
    /\ getitem(items[1], "notes") = <<>>

(***************************************************************************)
(* C15. search_word(term) returns exactly the entries whose word contains  *)
(* term as a substring (equality included) and search_definition(term)     *)
(* exactly those whose definition contains term, each in the order of the  *)
(* entry sequence; a query is always answered and leaves the entry         *)
(* sequence as it was.                                                     *)
(***************************************************************************)
\* t occurs in w: some stretch of w, possibly empty or all of w, equals t.
IsSubstring(t, w) ==
    \E i \in 1..(Len(w) + 1) :
        i + Len(t) - 1 <= Len(w) /\ SubSeq(w, i, i + Len(t) - 1) = t

\* The entries of ds that satisfy the query, in the order of ds.
Matches(ds, op, t) ==
    LET hit(d) == IF op = "search_word" THEN IsSubstring(t, d.word)
                  ELSE IsSubstring(t, d.definition)
    IN SelectSeq(ds, hit)

C15_Step ==
    /\ (search' # search)
          => /\ search'.result = Matches(returned, search'.op, search'.term)
             /\ returned' = returned
    /\ (pc = "idle" /\ calls >= 1)
          => \A t \in SearchTerms :
                /\ ENABLED (SearchWord /\ search'.term = t)
                /\ ENABLED (SearchDefinition /\ search'.term = t)

C15_SearchExact == [][C15_Step]_vars

\* search_word("awa") over the entries "awa" and "awana" returns both.
C15_Witness ==
    /\ search.op = "search_word"
    /\ search.term = "awa"
    /\ Len(returned) = 2
    /\ Len(search.result) = 2
    /\ search.result[1].word = "awa"
    /\ search.result[2].word = "awana"

(***************************************************************************)
(* C16. parse terminates: a step of the loop with a line left removes      *)
(* exactly the front line and nothing is ever put back, so the queue is    *)
(* always what is left of the text's lines after as many iterations, and   *)
(* a step of the loop with no line left returns: the loop makes at most    *)
(* as many iterations as the text has lines.  After a return the queue is  *)
(* empty, and a second parse() on the same Parser returns an empty         *)
(* sequence.                                                               *)
(***************************************************************************)
C16_Step ==
    /\ (pc = "loop" /\ lines # <<>>) => lines' = Tail(lines)
    /\ (pc = "loop" /\ lines = <<>>) => (pc' = "idle" /\ lines' = <<>>)
    /\ (pc # "loop") => lines' = lines
    /\ (pc = "loop" /\ pc' = "idle" /\ calls >= 2) => returned' = <<>>

\* The queue is the text's lines less the first k, k the iterations so far.
C16_Suffix ==
    LET all == split(file, "\n")
    IN \E k \in 0..Len(all) : lines = SubSeq(all, k + 1, Len(all))

C16_Drained == (pc = "idle" /\ calls >= 1) => lines = <<>>

C16_Terminates ==
    /\ [][C16_Step]_vars
    /\ [](C16_Suffix /\ C16_Drained)

\* The second parse() of a one-entry text has returned, with no entries.
C16_Witness ==
    /\ file = "awa n. // water"
    /\ pc = "idle"
    /\ calls = 2
    /\ lines = <<>>
    /\ returned = <<>>

(***************************************************************************)
(* C17. Nested variant: every element of the result list has               *)
(* is_alternate_form = FALSE and every alternate form under it has empty   *)
(* notes and empty alternate_forms; an indented entry line is appended to  *)
(* alternate_forms of the last element of the result list and a note line  *)
(* to the notes of that element, whatever line came before it.             *)
(***************************************************************************)
\* The line is neither empty nor skipped by the nested heading test.
NestedReached(l) == l # "" /\ ~nested_is_heading(l)

TopLevelShape(r) ==
    \A i \in 1..Len(r) :
        /\ r[i].is_alternate_form = FALSE
        /\ \A j \in 1..Len(r[i].alternate_forms) :
              LET a == r[i].alternate_forms[j]
              IN a.is_alternate_form = TRUE /\ a.notes = <<>> /\ a.alternate_forms = <<>>

\* r2 is r with its last element changed, the elements before it kept.
SameButLast(r, r2) ==
    /\ Len(r2) = Len(r)
    /\ \A i \in 1..(Len(r) - 1) : r2[i] = r[i]

C17_Step ==
    /\ (Popped /\ res # <<>> /\ line' # "" /\ is_alt_form(line') /\ HasDelimiter(line') /\ HasPosToken(line'))
          => LET prev == res[Len(res)]
                 now == res'[Len(res)]
                 n == Len(prev.alternate_forms)
             IN /\ SameButLast(res, res')
                /\ Len(now.alternate_forms) = n + 1
                /\ SubSeq(now.alternate_forms, 1, n) = prev.alternate_forms
                /\ now.alternate_forms[n + 1].word = HeadWord(line')
                /\ now.notes = prev.notes
                /\ now.word = prev.word
    /\ (Popped /\ res # <<>> /\ NestedReached(line') /\ ~HasDelimiter(line'))
          => LET prev == res[Len(res)]
                 now == res'[Len(res)]
             IN /\ SameButLast(res, res')
                /\ now.notes = Append(prev.notes, strip(line'))
                /\ now.alternate_forms = prev.alternate_forms
                /\ now.word = prev.word

C17_NestedAlternates == [][C17_Step]_vars /\ [](TopLevelShape(res) /\ TopLevelShape(returned))

\* An entry, an alternate form of it, and a note after the alternate form:
\* the note is in the entry's notes.
C17_Witness ==
    /\ file = "awa n. // water\n  awana n. i. // lake\nplural only"
    /\ pc = "idle"
    /\ Len(returned) = 1
    /\ returned[1].word = "awa"
    /\ returned[1].notes = <<"plural only">>
    /\ Len(returned[1].alternate_forms) = 1
    /\ returned[1].alternate_forms[1].word = "awana"
    /\ returned[1].alternate_forms[1].notes = <<>>

====
